---- MODULE Spec2Model ----
(***************************************************************************)
(* Quota coordination core of throttle_control.                            *)
(*                                                                         *)
(*   central.QuotaManager  (src/internal/central/guota.go)                 *)
(*       CheckQuota, refresh, and the HTTP handler handleQuotaCheck with   *)
(*       validateQuotaRequest.                                             *)
(*   application.Node      (src/unnamed/part_000)                          *)
(*       HandleRequest, refreshQuotas and HealthCheck over the node's      *)
(*       sync.RWMutex.                                                     *)
(*   application.CentralClient (src/internal/application/client.go)        *)
(*       CheckQuota and RetryWithBackoff.                                  *)
(*                                                                         *)
(* The specifications share the variables:                                 *)
(*   Spec      direct CheckQuota calls and refresh ticks on the manager;   *)
(*   HttpSpec  requests through /api/v1/quota/check and refresh ticks;     *)
(*   NodeSpec  goroutines of one application node, its refresh answered    *)
(*             by the manager (FairNodeSpec adds the fairness of the Go    *)
(*             scheduler).                                                 *)
(*   RefreshSpec   the refresh goroutine of a node in service, the manager *)
(*             behind it, a CentralClient of the same node, and the clock; *)
(*   HealthSpec    the refresh goroutine, a HealthCheck probe, the clock;  *)
(*   AnsweredSpec  the refresh goroutine behind any common.Client;         *)
(*   LivenessSpec  status reports on /api/v1/status, quota checks and      *)
(*             refresh ticks on the manager, and the clock.                *)
(*   RetrySpec     a caller of RetryWithBackoff, its durations in int64.   *)
(***************************************************************************)
EXTENDS Integers, Sequences, FiniteSets, TLC

\* ------------------------------------------------------------------ bounds

\* Largest total_quota configured for a profile.
MaxTotalQuota == 2
\* Largest number of entries in one QuotaRequest.
MaxEntries == 2

\* Largest lease a node's local profile starts with.
MaxAllocated == 2

\* The last instant of the clock.
MaxTime == 5

\* Largest maxRetries handed to RetryWithBackoff.
MaxAttempts == 35

\* Time is counted in units of 5 s: RefreshInterval and MonitorInterval (5 s)
\* are one unit, OfflineThreshold (15 s) is three.
RefreshInterval == 1
MonitorInterval == 1
OfflineThreshold == 3
\* Configured profile ids, and ids that are in no configuration.
ProfileIDs == {1, 2}
UnknownProfileIDs == {999}
\* Node ids of callers; the empty string is the missing node_id of a JSON body.
NodeIDs == {"n1", "n2"}
\* Values of ProfileQuota.Required (an int64): negative, zero, within, equal
\* to and above the largest budget.
RequiredValues == {-1, 0, 1, MaxTotalQuota, MaxTotalQuota + 1}
\* Values of Required in a work request to a node: each fits the largest
\* lease and exceeds the smaller ones.
NodeRequiredValues == 1 .. MaxAllocated
\* The goroutines of one node: callers of HandleRequest, and the goroutine
\* NewNode starts on startQuotaRefresh.
Handlers == {"h1", "h2"}
Refreshers == {"r"}
\* A caller of HealthCheck.
Probes == {"hc"}
Goroutines == Handlers \cup Refreshers \cup Probes
\* The node's own id.
ThisNode == "n1"

\* ------------------------------------------------------------------ state

VARIABLES
    profiles,     \* QuotaManager.profiles: id -> ProfileManager
    lastCall,     \* the last coordinator operation, its request and its response
    localQuotas,  \* Node.localQuotas: id -> LocalQuota
    mu,           \* Node.mu, the node's sync.RWMutex
    pc,           \* goroutine -> position in HandleRequest / refreshQuotas
    call,         \* goroutine -> the locals of its current call
    nodes,        \* the coordinator's node records: id -> state, last_seen
    now           \* the wall clock, what time.Now() returns

coordVars == <<profiles, lastCall, nodes>>
nodeVars == <<localQuotas, mu, pc, call>>
vars == <<profiles, lastCall, localQuotas, mu, pc, call, nodes, now>>

\* ------------------------------------------------------- coordinator: data

\* The ProfileConfig table handed to NewQuotaManager: the first profile has
\* the largest budget, the others a budget of one unit.
profileConfigs ==
    [p \in ProfileIDs |->
        [TotalQuota |-> IF p = 1 THEN MaxTotalQuota ELSE 1]]

\* NewQuotaManager: one ProfileManager per configured profile, nothing used,
\* no node seen.
NewQuotaManager(configs) ==
    [p \in DOMAIN configs |->
        [totalQuota |-> configs[p].TotalQuota,
         usedQuota  |-> 0,
         nodeQuotas |-> <<>>]]

\* common.ProfileQuota values and the requests built from them.
ProfileQuotas ==
    [ProfileID : ProfileIDs \cup UnknownProfileIDs, Required : RequiredValues]

QuotaLists == UNION {[1 .. n -> ProfileQuotas] : n \in 0 .. MaxEntries}

QuotaRequests == [NodeID : NodeIDs, Quotas : QuotaLists]

\* Bodies decoded from JSON: node_id may be missing.
HttpQuotaRequests == [NodeID : NodeIDs \cup {""}, Quotas : QuotaLists]

\* ------------------------------------------------ coordinator: CheckQuota

UnknownProfileResponse_GrantsRequired(profileQuota) ==
    [ProfileID   |-> profileQuota.ProfileID,
     Granted     |-> profileQuota.Required,
     Required    |-> profileQuota.Required,
     RateLimited |-> FALSE]

\* The response entry for a profile that is not configured.
UnknownProfileResponse(profileQuota) ==
    [ProfileID   |-> profileQuota.ProfileID,
     Granted     |-> 0,
     Required    |-> profileQuota.Required,
     RateLimited |-> FALSE]

GetOrCreateNodeQuota_Reset(nodeQuotas, nodeID) ==
    [n \in DOMAIN nodeQuotas \cup {nodeID} |->
        IF n = nodeID THEN [allocated |-> 0, lastCheck |-> now]
        ELSE nodeQuotas[n]]

\* nodeQuota, exists := profileMgr.nodeQuotas[req.NodeID]; created when
\* absent, with lastCheck: time.Now().
GetOrCreateNodeQuota(nodeQuotas, nodeID) ==
    IF nodeID \in DOMAIN nodeQuotas
    THEN nodeQuotas
    ELSE [n \in DOMAIN nodeQuotas \cup {nodeID} |->
            IF n = nodeID THEN [allocated |-> 0, lastCheck |-> now]
            ELSE nodeQuotas[n]]

RemainingQuota_IgnoreUsed(profileMgr) == profileMgr.totalQuota

\* remainingQuota := profileMgr.totalQuota - profileMgr.usedQuota
RemainingQuota(profileMgr) == profileMgr.totalQuota - profileMgr.usedQuota

GrantedQuota_NoClamp(required, remainingQuota) == required

\* grantedQuota := Required, clamped to remainingQuota.
GrantedQuota(required, remainingQuota) ==
    IF remainingQuota < required THEN remainingQuota ELSE required

UpdateQuota_AllocatedOnly(profileMgr, nodeID, grantedQuota) ==
    IF grantedQuota > 0
    THEN [profileMgr EXCEPT !.nodeQuotas[nodeID].allocated = @ + grantedQuota,
                            !.nodeQuotas[nodeID].lastCheck = now]
    ELSE profileMgr

\* if grantedQuota > 0 { nodeQuota.allocated += ...; usedQuota += ...;
\* nodeQuota.lastCheck = time.Now() }
UpdateQuota(profileMgr, nodeID, grantedQuota) ==
    IF grantedQuota > 0
    THEN [profileMgr EXCEPT !.nodeQuotas[nodeID].allocated = @ + grantedQuota,
                            !.nodeQuotas[nodeID].lastCheck = now,
                            !.usedQuota = @ + grantedQuota]
    ELSE profileMgr

\* One iteration of the loop over req.Quotas: the profiles afterwards and the
\* response entry appended.
CheckQuotaEntry(profs, nodeID, profileQuota) ==
    IF profileQuota.ProfileID \notin DOMAIN profs
    THEN [profiles |-> profs, response |-> UnknownProfileResponse(profileQuota)]
    ELSE
        LET p == profileQuota.ProfileID
            withNode == [profs[p] EXCEPT
                            !.nodeQuotas = GetOrCreateNodeQuota(@, nodeID)]
            grantedQuota ==
                GrantedQuota(profileQuota.Required, RemainingQuota(withNode))
        IN  [profiles |->
                [profs EXCEPT ![p] = UpdateQuota(withNode, nodeID, grantedQuota)],
             response |->
                [ProfileID   |-> p,
                 Granted     |-> grantedQuota,
                 Required    |-> profileQuota.Required,
                 RateLimited |-> FALSE]]

\* for _, profileQuota := range req.Quotas { ... }, in slice order.
RECURSIVE CheckQuotaLoop(_, _, _, _)
CheckQuotaLoop(profs, nodeID, quotas, responses) ==
    IF quotas = <<>>
    THEN [profiles |-> profs, Quotas |-> responses]
    ELSE
        LET r == CheckQuotaEntry(profs, nodeID, Head(quotas))
        IN  CheckQuotaLoop(r.profiles, nodeID, Tail(quotas),
                           Append(responses, r.response))

\* The record kept of an operation until its caller has taken the result:
\* which one, what it was given, what it returned (status is the HTTP status,
\* 0 for a direct call). Operations are serialized by qm.mu, so they are
\* recorded one at a time.
Called(op, nodeID, quotas, status, responses) ==
    [op |-> op, NodeID |-> nodeID, Quotas |-> quotas,
     status |-> status, Responses |-> responses]

NoCall == Called("", "", <<>>, 0, <<>>)

\* The operation's result is handed to its caller (return, or responseJSON /
\* responseError writing the body); the manager's state is not touched.
Return ==
    /\ lastCall # NoCall
    /\ lastCall' = NoCall
    /\ UNCHANGED <<profiles, nodes, now, nodeVars>>

\* QuotaManager.CheckQuota(req), the whole call under qm.mu.Lock().
CheckQuota(req) ==
    LET r == CheckQuotaLoop(profiles, req.NodeID, req.Quotas, <<>>)
    IN  /\ lastCall = NoCall
        /\ profiles' = r.profiles
        /\ lastCall' = Called("CheckQuota", req.NodeID, req.Quotas, 0, r.Quotas)
        /\ UNCHANGED <<nodes, now, nodeVars>>

RefreshProfile_KeepUsed(profileMgr) ==
    [profileMgr EXCEPT
        !.nodeQuotas = [n \in DOMAIN @ |-> [@[n] EXCEPT !.allocated = 0]]]

RefreshProfile_KeepAllocated(profileMgr) ==
    [profileMgr EXCEPT !.usedQuota = 0]

\* The body of refresh's loop: usedQuota = 0 and every allocated = 0.
RefreshProfile(profileMgr) ==
    [profileMgr EXCEPT
        !.usedQuota = 0,
        !.nodeQuotas = [n \in DOMAIN @ |-> [@[n] EXCEPT !.allocated = 0]]]

\* QuotaManager.refresh(), run by startPeriodicRefresh on every tick.
refresh ==
    /\ lastCall = NoCall
    /\ profiles' = [p \in DOMAIN profiles |-> RefreshProfile(profiles[p])]
    /\ lastCall' = Called("refresh", "", <<>>, 0, <<>>)
    /\ UNCHANGED <<nodes, now, nodeVars>>

\* -------------------------------------------- coordinator: HTTP front end

\* Server.validateQuotaRequest: "" for nil, else the error message.
validateQuotaRequest(req) ==
    IF req.NodeID = "" THEN "node_id is required"
    ELSE IF Len(req.Quotas) = 0 THEN "quotas cannot be empty"
    ELSE IF \E i \in 1 .. Len(req.Quotas) : req.Quotas[i].Required <= 0
         THEN "required quota must be positive"
    ELSE ""

StatusOK == 200
StatusBadRequest == 400

\* Server.handleQuotaCheck for a POST whose body decodes to req.
handleQuotaCheck(req) ==
    /\ lastCall = NoCall
    /\ IF validateQuotaRequest(req) # ""
       THEN /\ lastCall' = Called("handleQuotaCheck", req.NodeID, req.Quotas,
                                  StatusBadRequest, <<>>)
            /\ UNCHANGED <<profiles, nodes, now, nodeVars>>
       ELSE LET r == CheckQuotaLoop(profiles, req.NodeID, req.Quotas, <<>>)
            IN  /\ profiles' = r.profiles
                /\ lastCall' = Called("handleQuotaCheck", req.NodeID, req.Quotas,
                                      StatusOK, r.Quotas)
                /\ UNCHANGED <<nodes, now, nodeVars>>

\* ------------------------------------------------------- specifications

\* No node takes part: its variables stay as they are.
NodeIdle ==
    /\ localQuotas = <<>>
    /\ mu = [readers |-> {}, writer |-> ""]
    /\ pc = <<>>
    /\ call = <<>>

\* The coordinator has seen no node; the clock starts at 0.
Start ==
    /\ nodes = <<>>
    /\ now = 0

Init ==
    /\ profiles = NewQuotaManager(profileConfigs)
    /\ lastCall = NoCall
    /\ NodeIdle
    /\ Start

\* Some node calls CheckQuota with some request.
CheckQuotaCalled ==
    /\ lastCall = NoCall
    /\ \E req \in QuotaRequests : CheckQuota(req)

Next ==
    \/ CheckQuotaCalled
    \/ refresh
    \/ Return

Spec == Init /\ [][Next]_vars

\* Some request body arrives on /api/v1/quota/check.
QuotaCheckPosted ==
    /\ lastCall = NoCall
    /\ \E req \in HttpQuotaRequests : handleQuotaCheck(req)

HttpNext ==
    \/ QuotaCheckPosted
    \/ refresh
    \/ Return

HttpSpec == Init /\ [][HttpNext]_vars

\* ------------------------------------------------------------ node: data

\* NodeConfig.MaxRetries (GetDefaultConfig sets 3).
MaxRetries == 3

\* A LocalQuota as the node holds it (the rate limiter is a collaborator:
\* what it answers is an input of HandleRequest).
LocalQuota(allocated, used, lastRefresh) ==
    [allocated |-> allocated, used |-> used, lastRefresh |-> lastRefresh]

\* The localQuotas maps over any set of the configured profiles, with the
\* LocalQuota values of Q.
LocalQuotasOf(Q) == UNION {[D -> Q] : D \in SUBSET ProfileIDs}

\* The localQuotas maps a node can start from: each profile with a lease
\* obtained when the clock starts, nothing debited.
InitialLocalQuotas ==
    LocalQuotasOf({LocalQuota(a, 0, 0) : a \in 0 .. MaxAllocated})

\* common.Request.Quotas: profile id -> Required.
Requests == UNION {[D -> NodeRequiredValues] : D \in SUBSET ProfileIDs}

\* The orders in which `for profileID, quota := range req.Quotas` can visit
\* the keys of the map.
RangeOrders(S) ==
    {o \in [1 .. Cardinality(S) -> S] :
        \A i, j \in 1 .. Cardinality(S) : o[i] = o[j] => i = j}

\* sync.RWMutex: the goroutines holding it for reading, and the goroutine
\* that holds rw.w (it has called Lock and either waits for the readers to
\* leave or holds the mutex for writing); "" when there is none.
Unlocked == [readers |-> {}, writer |-> ""]

\* ---------------------------------------------------- node: HandleRequest

\* localQuota.allocated - localQuota.used < quota.Required
QuotaExceeded(localQuota, required) ==
    localQuota.allocated - localQuota.used < required

\* The check loop of HandleRequest over the keys in `order`; allow[p] is the
\* answer of profile p's rateLimiter.Allow(). The error returned, or "ok".
RECURSIVE CheckLocalQuotas(_, _, _, _)
CheckLocalQuotas_QuotaFirst(lq, quotas, allow, order) ==
    IF order = <<>> THEN "ok"
    ELSE
        LET profileID == Head(order)
        IN  IF profileID \notin DOMAIN lq THEN "profile-unknown"
            ELSE IF QuotaExceeded(lq[profileID], quotas[profileID])
                 THEN "quota-exceeded"
            ELSE IF ~allow[profileID] THEN "rate-limited"
            ELSE CheckLocalQuotas(lq, quotas, allow, Tail(order))

CheckLocalQuotas(lq, quotas, allow, order) ==
    IF order = <<>> THEN "ok"
    ELSE
        LET profileID == Head(order)
        IN  IF profileID \notin DOMAIN lq THEN "profile-unknown"
            ELSE IF ~allow[profileID] THEN "rate-limited"
            ELSE IF QuotaExceeded(lq[profileID], quotas[profileID])
                 THEN "quota-exceeded"
            ELSE CheckLocalQuotas(lq, quotas, allow, Tail(order))

\* n.localQuotas[profileID].used += quota.Required, for every named profile.
Debit(lq, quotas) ==
    [p \in DOMAIN lq |->
        IF p \in DOMAIN quotas
        THEN [lq[p] EXCEPT !.used = @ + quotas[p]]
        ELSE lq[p]]

\* What a call of HandleRequest holds: the request, what the rate limiter of
\* each named local profile answers when asked (a profile the node does not
\* hold has no limiter), and the error returned ("ok" for nil, "" while the
\* call runs).
CallLocals(req, allow, result) ==
    [req |-> req, allow |-> allow, result |-> result]

\* HandleRequest from n.mu.RLock() to the end of the check loop. Nothing can
\* write localQuotas while the read lock is held, so the loop is one step.
\* A failed check returns its error (the deferred RUnlock runs); when every
\* check passes the goroutine goes on, still holding the read lock, to
\* time.Sleep and n.mu.Lock().
HandleRequest(h, req) ==
    /\ pc[h] = "idle"
    /\ mu.writer = ""
    /\ \E allow \in [DOMAIN req \cap DOMAIN localQuotas -> BOOLEAN],
          order \in RangeOrders(DOMAIN req) :
        LET result == CheckLocalQuotas(localQuotas, req, allow, order)
        IN  IF result = "ok"
            THEN /\ mu' = [mu EXCEPT !.readers = @ \cup {h}]
                 /\ pc' = [pc EXCEPT ![h] = "Lock"]
                 /\ call' = [call EXCEPT ![h] = CallLocals(req, allow, "")]
            ELSE /\ mu' = mu
                 /\ pc' = [pc EXCEPT ![h] = "returned"]
                 /\ call' = [call EXCEPT ![h] = CallLocals(req, allow, result)]
    /\ UNCHANGED <<localQuotas, coordVars, now>>

\* The caller takes what HandleRequest or HealthCheck returned.
Returned(h) ==
    /\ pc[h] = "returned"
    /\ pc' = [pc EXCEPT ![h] = "idle"]
    /\ call' = [call EXCEPT ![h] = CallLocals(<<>>, <<>>, "")]
    /\ UNCHANGED <<localQuotas, mu, coordVars, now>>

\* ---------------------------------------------------- node: refreshQuotas

\* The QuotaRequest refreshQuotas builds under the read lock: every local
\* profile with Required 0.
RefreshRequest(lq) ==
    [p \in DOMAIN lq |-> [ProfileID |-> p, Required |-> 0]]

\* The request as the list the coordinator iterates, in an order of the map.
AsList(quotas, order) == [i \in 1 .. Len(order) |-> quotas[order[i]]]

RetryAgain_OffByOne(i) == i <= MaxRetries

\* The condition of the retry loop: i < n.config.MaxRetries.
RetryAgain(i) == i < MaxRetries

\* The locals of refreshQuotas: the request, the loop counter, the calls of
\* n.client.RequestQuota made so far, the response. With them, streak: 1 when
\* the last refresh that ended succeeded and no request was admitted since.
RefreshLocals(req, i, attempts, resp, streak) ==
    [req |-> req, i |-> i, attempts |-> attempts, resp |-> resp,
     streak |-> streak]

\* refreshQuotas from its start to the retry loop: RLock, build the request,
\* RUnlock. A loop that is not entered leaves err nil and the response empty.
refreshQuotas(r) ==
    /\ pc[r] = "idle"
    /\ mu.writer = ""
    /\ pc' = [pc EXCEPT ![r] = IF RetryAgain(0) THEN "RequestQuota" ELSE "Lock"]
    /\ call' = [call EXCEPT ![r] =
                  RefreshLocals(RefreshRequest(localQuotas), 0, 0, <<>>,
                                call[r].streak)]
    /\ UNCHANGED <<localQuotas, mu, coordVars, now>>

\* One attempt of the retry loop, n.client.RequestQuota(ctx, req). It fails
\* (transport error or deadline) and the loop goes on after the sleep, or
\* the coordinator answers with what CheckQuota returns for the request and
\* the loop is left. When the loop ends on a failure refreshQuotas returns.
RequestQuota(r) ==
    /\ pc[r] = "RequestQuota"
    /\ \/ /\ call' = [call EXCEPT
                        ![r].i = @ + 1,
                        ![r].attempts = @ + 1,
                        ![r].streak = IF RetryAgain(call[r].i + 1) THEN @ ELSE 0]
          /\ pc' = [pc EXCEPT ![r] =
                      IF RetryAgain(call[r].i + 1) THEN "RequestQuota" ELSE "idle"]
          /\ UNCHANGED <<localQuotas, mu, coordVars, now>>
       \/ \E order \in RangeOrders(DOMAIN call[r].req) :
            LET answer == CheckQuotaLoop(profiles, ThisNode,
                                         AsList(call[r].req, order), <<>>)
            IN  /\ profiles' = answer.profiles
                /\ call' = [call EXCEPT ![r].resp = answer.Quotas,
                                        ![r].attempts = @ + 1]
                /\ pc' = [pc EXCEPT ![r] = "Lock"]
                /\ UNCHANGED <<localQuotas, mu, lastCall, nodes, now>>

\* localQuota.allocated = profileResp.Granted
\* localQuota.lastRefresh = time.Now()
RefreshLocalQuota(localQuota, granted) ==
    [localQuota EXCEPT !.allocated = granted, !.lastRefresh = now]

RECURSIVE UpdateLocalQuotas(_, _)
UpdateLocalQuotas_NoExistsCheck(lq, responses) ==
    IF responses = <<>> THEN lq
    ELSE
        LET profileResp == Head(responses)
            id == profileResp.ProfileID
            updated ==
                [p \in DOMAIN lq \cup {id} |->
                    IF p # id THEN lq[p]
                    ELSE LocalQuota(profileResp.Granted,
                                    IF p \in DOMAIN lq THEN lq[p].used ELSE 0,
                                    now)]
        IN  UpdateLocalQuotas(updated, Tail(responses))

\* The update loop of refreshQuotas over resp.Quotas.
UpdateLocalQuotas(lq, responses) ==
    IF responses = <<>> THEN lq
    ELSE
        LET profileResp == Head(responses)
            updated ==
                IF profileResp.ProfileID \in DOMAIN lq
                THEN [lq EXCEPT ![profileResp.ProfileID] =
                        RefreshLocalQuota(@, profileResp.Granted)]
                ELSE lq
        IN  UpdateLocalQuotas(updated, Tail(responses))

\* ------------------------------------------------------- node: n.mu.Lock()

\* n.mu.Lock(), first half: the goroutine takes rw.w (one writer at a time)
\* and announces itself; from here on RLock blocks, and the goroutine waits
\* for the readers that hold the mutex to leave.
LockBegin(g) ==
    /\ pc[g] = "Lock"
    /\ mu.writer = ""
    /\ mu' = [mu EXCEPT !.writer = g]
    /\ pc' = [pc EXCEPT ![g] = "locking"]
    /\ UNCHANGED <<localQuotas, call, coordVars, now>>

LockGranted_OwnReadLockAside(g) == mu.readers \subseteq {g}

\* n.mu.Lock(), second half: Lock returns when no reader holds the mutex.
\* The readers are counted, not named: a read lock held by the goroutine
\* that calls Lock counts like any other.
LockGranted(g) == mu.readers = {}

\* Lock has returned and the goroutine runs its critical section to the end
\* of the function, deferred unlocks included. In HandleRequest: the debit,
\* Unlock, RUnlock, return {request_id, StatusOK}. In refreshQuotas: the
\* update of localQuotas, Unlock.
LockAcquired(g) ==
    /\ pc[g] = "locking"
    /\ mu.writer = g
    /\ LockGranted(g)
    /\ IF g \in Handlers
       THEN /\ localQuotas' = Debit(localQuotas, call[g].req)
            /\ mu' = [readers |-> mu.readers \ {g}, writer |-> ""]
            /\ pc' = [pc EXCEPT ![g] = "returned"]
            /\ call' = [x \in DOMAIN call |->
                          IF x = g THEN [call[x] EXCEPT !.result = "ok"]
                          ELSE IF x \in Refreshers
                               THEN [call[x] EXCEPT !.streak = 0]
                          ELSE call[x]]
       ELSE /\ localQuotas' = UpdateLocalQuotas(localQuotas, call[g].resp)
            /\ mu' = [mu EXCEPT !.writer = ""]
            /\ pc' = [pc EXCEPT ![g] = "idle"]
            /\ call' = [call EXCEPT ![g] = RefreshLocals(<<>>, 0, 0, <<>>, 1)]
    /\ UNCHANGED <<coordVars, now>>

\* ---------------------------------------------------- node: specification

\* NewNode, with the profiles the node is set up with.
NodeInit ==
    /\ profiles = NewQuotaManager(profileConfigs)
    /\ lastCall = NoCall
    /\ localQuotas \in InitialLocalQuotas
    /\ Start
    /\ mu = Unlocked
    /\ pc = [g \in Goroutines |-> "idle"]
    /\ call = [g \in Goroutines |->
                IF g \in Refreshers
                THEN RefreshLocals(<<>>, 0, 0, <<>>, 0)
                ELSE CallLocals(<<>>, <<>>, "")]

NodeNext ==
    \/ \E h \in Handlers, req \in Requests : HandleRequest(h, req)
    \/ \E h \in Handlers : Returned(h)
    \/ \E r \in Refreshers : refreshQuotas(r)
    \/ \E r \in Refreshers : RequestQuota(r)
    \/ \E g \in Goroutines : LockBegin(g)
    \/ \E g \in Goroutines : LockAcquired(g)

NodeSpec == NodeInit /\ [][NodeNext]_vars

\* A goroutine that can run does run: every step of a call that has begun
\* is taken if it stays possible. Nothing obliges a caller to send a request
\* or to pick up a result.
NodeFairness ==
    /\ \A g \in Goroutines : WF_vars(LockBegin(g))
    /\ \A g \in Goroutines : WF_vars(LockAcquired(g))
    /\ \A r \in Refreshers : WF_vars(RequestQuota(r))

FairNodeSpec == NodeSpec /\ NodeFairness

\* ------------------------------------------- node: HealthCheck and the clock

Stale_AtThreshold(localQuota) ==
    now - localQuota.lastRefresh >= RefreshInterval * 2

\* time.Since(quota.lastRefresh) > n.config.RefreshInterval*2
Stale(localQuota) == now - localQuota.lastRefresh > RefreshInterval * 2

\* The loop of HealthCheck over the local profiles in `order`: the error of
\* the first stale one, "ok" for nil.
RECURSIVE CheckRefreshed(_, _)
CheckRefreshed(lq, order) ==
    IF order = <<>> THEN "ok"
    ELSE IF Stale(lq[Head(order)]) THEN "quota refresh stale"
    ELSE CheckRefreshed(lq, Tail(order))

\* Node.HealthCheck, the whole call under the read lock.
HealthCheck(g) ==
    /\ pc[g] = "idle"
    /\ mu.writer = ""
    /\ \E order \in RangeOrders(DOMAIN localQuotas) :
        LET result == IF Cardinality(DOMAIN localQuotas) = 0
                      THEN "no profiles configured"
                      ELSE CheckRefreshed(localQuotas, order)
        IN  call' = [call EXCEPT ![g] = CallLocals(<<>>, <<>>, result)]
    /\ pc' = [pc EXCEPT ![g] = "returned"]
    /\ UNCHANGED <<localQuotas, mu, coordVars, now>>

\* Time passes.
Tick ==
    /\ now < MaxTime
    /\ now' = now + 1
    /\ UNCHANGED <<coordVars, nodeVars>>

\* ------------------------------------------- node in service: specification

\* What a CentralClient asks of the coordinator: the quotas of
\* ExampleUsage, 100 of profile 1 and 50 of profile 2 in one request.
ClientQuotaLists ==
    {<<[ProfileID |-> 1, Required |-> 100],
       [ProfileID |-> 2, Required |-> 50]>>}

\* CentralClient.CheckQuota(quotas) of node n: the request carries the
\* client's node id and is posted to /api/v1/quota/check.
ClientCheckQuota(n) ==
    /\ lastCall = NoCall
    /\ \E quotas \in ClientQuotaLists :
        handleQuotaCheck([NodeID |-> n, Quotas |-> quotas])

RefreshInit ==
    /\ profiles = NewQuotaManager(profileConfigs)
    /\ lastCall = NoCall
    /\ localQuotas \in InitialLocalQuotas
    /\ Start
    /\ mu = Unlocked
    /\ pc = [g \in Goroutines |-> "idle"]
    /\ call = [g \in Goroutines |->
                IF g \in Refreshers
                THEN RefreshLocals(<<>>, 0, 0, <<>>, 0)
                ELSE CallLocals(<<>>, <<>>, "")]

\* The refresh goroutine of a node while no work request arrives, the
\* coordinator behind it with its own tick and a client of the same node,
\* and the clock.
RefreshNext ==
    \/ \E r \in Refreshers : refreshQuotas(r)
    \/ \E r \in Refreshers : RequestQuota(r)
    \/ \E g \in Goroutines : LockBegin(g)
    \/ \E g \in Goroutines : LockAcquired(g)
    \/ ClientCheckQuota(ThisNode)
    \/ refresh
    \/ Return
    \/ Tick

RefreshSpec == RefreshInit /\ [][RefreshNext]_vars

\* The refresh goroutine and a health probe of the node, and the clock.
HealthNext ==
    \/ \E r \in Refreshers : refreshQuotas(r)
    \/ \E r \in Refreshers : RequestQuota(r)
    \/ \E g \in Goroutines : LockBegin(g)
    \/ \E g \in Goroutines : LockAcquired(g)
    \/ \E g \in Probes : HealthCheck(g)
    \/ \E g \in Probes : Returned(g)
    \/ Tick

HealthSpec == RefreshInit /\ [][HealthNext]_vars

\* -------------------------------------- node behind any common.Client

\* The QuotaResponse lists a client can return: entries for any of the
\* profile ids, known to the node or not, each once and in ascending order,
\* with any grant.
QuotaResponses ==
    UNION {
        {[i \in 1 .. Cardinality(D) |->
            LET id == (CHOOSE o \in RangeOrders(D) :
                          \A j, k \in DOMAIN o : j < k => o[j] < o[k])[i]
            IN  [ProfileID |-> id, Granted |-> granted[id],
                 Required |-> 0, RateLimited |-> FALSE]] :
         granted \in [D -> 0 .. MaxAllocated]} :
        D \in SUBSET (ProfileIDs \cup UnknownProfileIDs)}

\* n.client.RequestQuota(ctx, req) returns with err == nil: the client is an
\* implementation of common.Client, and refreshQuotas takes whatever
\* QuotaResponse it returns.
RequestQuotaAnswered(r) ==
    /\ pc[r] = "RequestQuota"
    /\ \E resp \in QuotaResponses :
        call' = [call EXCEPT ![r].resp = resp, ![r].attempts = @ + 1]
    /\ pc' = [pc EXCEPT ![r] = "Lock"]
    /\ UNCHANGED <<localQuotas, mu, coordVars, now>>

\* The refresh goroutine of a node whose client answers anything, and the
\* clock.
AnsweredNext ==
    \/ \E r \in Refreshers : refreshQuotas(r)
    \/ \E r \in Refreshers : RequestQuotaAnswered(r)
    \/ \E g \in Goroutines : LockBegin(g)
    \/ \E g \in Goroutines : LockAcquired(g)
    \/ Tick

AnsweredSpec == RefreshInit /\ [][AnsweredNext]_vars

\* ------------------------------------------- coordinator: node liveness

\* common.NodeState, by the names String() gives.
StateUnknown == "UNKNOWN"
StateOnline == "ONLINE"
StateOffline == "OFFLINE"
StateOverloaded == "OVERLOADED"

NodeStates == {StateUnknown, StateOnline, StateOffline, StateOverloaded}

\* The common.NodeStatus bodies that can arrive on /api/v1/status: any node,
\* any state (CentralClient.ReportStatus sends StateOnline), stamped by the
\* sender.
NodeStatuses == [NodeID : NodeIDs, State : NodeStates, LastSeen : {now}]

\* QuotaManager.UpdateNodeStatus(status): the node record is created or
\* updated, last_seen refreshed and the cached state replaced. (The rolling
\* window of acceptance ratios is left out: no operation here reads it.)
UpdateNodeStatus(records, status) ==
    [n \in DOMAIN records \cup {status.NodeID} |->
        IF n = status.NodeID
        THEN [state |-> status.State, lastSeen |-> now]
        ELSE records[n]]

\* Server.handleNodeStatus for a POST whose body decodes to status.
handleNodeStatus(status) ==
    /\ lastCall = NoCall
    /\ nodes' = UpdateNodeStatus(nodes, status)
    /\ lastCall' = Called("handleNodeStatus", status.NodeID, <<>>, StatusOK, <<>>)
    /\ UNCHANGED <<profiles, now, nodeVars>>

\* Some status report arrives on /api/v1/status.
StatusPosted ==
    /\ lastCall = NoCall
    /\ \E status \in NodeStatuses : handleNodeStatus(status)

\* The coordinator with its periodic task (NewQuotaManager starts
\* startPeriodicRefresh and nothing else), the status reports and the quota
\* requests of the nodes' clients, and the clock.
LivenessNext ==
    \/ StatusPosted
    \/ \E n \in NodeIDs : ClientCheckQuota(n)
    \/ refresh
    \/ Return
    \/ Tick

LivenessSpec == Init /\ [][LivenessNext]_vars

\* ------------------------------------- client: RetryWithBackoff

\* An int64 (time.Duration counts nanoseconds in one) is kept as its eight
\* bytes in two's complement, least significant first, so that shifts and
\* products wrap as they do in Go.
Int64(n) ==
    [k \in 0 .. 7 |-> IF k < 4 THEN (n \div 256 ^ k) % 256 ELSE 0]

\* 1 << uint(i) on an int64: bit i alone, nothing once i reaches the width.
ShiftLeft(i) ==
    [k \in 0 .. 7 |-> IF i < 64 /\ i \div 8 = k THEN 2 ^ (i % 8) ELSE 0]

\* The sum of x[a] * y[k - a] over a = from .. k: column k of the product.
RECURSIVE ColumnSum(_, _, _, _)
ColumnSum(x, y, k, from) ==
    IF from > k THEN 0
    ELSE x[from] * y[k - from] + ColumnSum(x, y, k, from + 1)

\* x * y on int64: the low 64 bits of the product.
Mul(x, y) ==
    LET acc[k \in 0 .. 7] ==
            ColumnSum(x, y, k, 0) + (IF k = 0 THEN 0 ELSE acc[k - 1] \div 256)
    IN  [k \in 0 .. 7 |-> acc[k] % 256]

\* x < 0 on int64: the sign bit.
Negative(x) == x[7] >= 128

\* x > y on int64.
Greater(x, y) ==
    IF Negative(x) # Negative(y) THEN Negative(y)
    ELSE \E k \in 0 .. 7 :
            /\ x[k] > y[k]
            /\ \A j \in k + 1 .. 7 : x[j] = y[j]

\* time.Second, and n * time.Second.
Second == Int64(1000000000)
Seconds(n) == Mul(Int64(n), Second)

\* backoff := time.Duration(1<<uint(i)) * time.Second, cut to 30 * time.Second
\* when it is more.
Backoff(i) ==
    LET backoff == Mul(ShiftLeft(i), Second)
    IN  IF Greater(backoff, Seconds(30)) THEN Seconds(30) ELSE backoff

\* time.Sleep(d): how long the caller is held; a negative or zero duration
\* returns at once.
Sleep(d) == IF Negative(d) THEN Int64(0) ELSE d

\* The goroutine that calls RetryWithBackoff.
Callers == {"c1"}

\* The locals of RetryWithBackoff: maxRetries, the loop counter, the calls of
\* operation made, err ("" for nil), what the last time.Sleep held the caller
\* for, and the error returned ("nil" for nil, "" while the call runs).
RetryLocals(maxRetries, i, attempts, err, slept, result) ==
    [maxRetries |-> maxRetries, i |-> i, attempts |-> attempts, err |-> err,
     slept |-> slept, result |-> result]

\* What RetryWithBackoff returns when the loop is left by its condition:
\* the error wrapping err.
Failed(err) == "operation failed after retries: " \o err

\* RetryWithBackoff(operation, maxRetries) up to the first test of the loop
\* condition.
RetryWithBackoff(c, maxRetries) ==
    /\ pc[c] = "idle"
    /\ pc' = [pc EXCEPT ![c] = IF 0 < maxRetries THEN "operation" ELSE "returned"]
    /\ call' = [call EXCEPT ![c] =
                  RetryLocals(maxRetries, 0, 0, "", Int64(0),
                              IF 0 < maxRetries THEN "" ELSE Failed(""))]
    /\ UNCHANGED <<localQuotas, mu, coordVars, now>>

\* One turn of the loop: operation() returns nil and so does
\* RetryWithBackoff, or it returns an error, the caller sleeps for the
\* backoff, i++ and the condition is tested again.
operation(c) ==
    /\ pc[c] = "operation"
    /\ \/ /\ call' = [call EXCEPT ![c].attempts = @ + 1,
                                  ![c].err = "",
                                  ![c].result = "nil"]
          /\ pc' = [pc EXCEPT ![c] = "returned"]
       \/ LET next == call[c].i + 1
          IN  /\ call' = [call EXCEPT
                            ![c].attempts = @ + 1,
                            ![c].err = "error",
                            ![c].slept = Sleep(Backoff(call[c].i)),
                            ![c].i = next,
                            ![c].result = IF next < call[c].maxRetries
                                          THEN "" ELSE Failed("error")]
              /\ pc' = [pc EXCEPT ![c] = IF next < call[c].maxRetries
                                         THEN "operation" ELSE "returned"]
    /\ UNCHANGED <<localQuotas, mu, coordVars, now>>

\* The caller takes what RetryWithBackoff returned.
RetryReturned(c) ==
    /\ pc[c] = "returned"
    /\ pc' = [pc EXCEPT ![c] = "idle"]
    /\ call' = [call EXCEPT ![c] = RetryLocals(0, 0, 0, "", Int64(0), "")]
    /\ UNCHANGED <<localQuotas, mu, coordVars, now>>

RetryInit ==
    /\ profiles = NewQuotaManager(profileConfigs)
    /\ lastCall = NoCall
    /\ localQuotas = <<>>
    /\ mu = Unlocked
    /\ Start
    /\ pc = [c \in Callers |-> "idle"]
    /\ call = [c \in Callers |-> RetryLocals(0, 0, 0, "", Int64(0), "")]

\* A caller of RetryWithBackoff with any maxRetries and an operation that
\* fails or succeeds as it pleases.
RetryNext ==
    \/ \E c \in Callers, maxRetries \in -1 .. MaxAttempts :
          RetryWithBackoff(c, maxRetries)
    \/ \E c \in Callers : operation(c)
    \/ \E c \in Callers : RetryReturned(c)

RetrySpec == RetryInit /\ [][RetryNext]_vars

\* ------------------------------------------------- claims: the coordinator

\* Sum of allocated over the records of the nodes in S.
RECURSIVE SumAllocated(_, _)
SumAllocated(nodeQuotas, S) ==
    IF S = {} THEN 0
    ELSE LET n == CHOOSE x \in S : TRUE
         IN  nodeQuotas[n].allocated + SumAllocated(nodeQuotas, S \ {n})

\* allocated of node n in a record map, 0 when the node has no record.
AllocatedOf(nodeQuotas, n) ==
    IF n \in DOMAIN nodeQuotas THEN nodeQuotas[n].allocated ELSE 0

\* Sum of Granted over the first k response entries that name profile p.
RECURSIVE SumGranted(_, _, _)
SumGranted(responses, p, k) ==
    IF k = 0 THEN 0
    ELSE SumGranted(responses, p, k - 1)
         + (IF responses[k].ProfileID = p THEN responses[k].Granted ELSE 0)

\* Sum of the positive Granted values among the first k entries naming p:
\* what the claims say has been added to used before entry k + 1.
RECURSIVE SumAdded(_, _, _)
SumAdded(responses, p, k) ==
    IF k = 0 THEN 0
    ELSE SumAdded(responses, p, k - 1)
         + (IF responses[k].ProfileID = p /\ responses[k].Granted > 0
            THEN responses[k].Granted ELSE 0)

Min(a, b) == IF a < b THEN a ELSE b

\* The profiles a request names.
Named(quotas) == {quotas[i].ProfileID : i \in 1 .. Len(quotas)}

\* The step just taken is a CheckQuota call (direct, or reached through the
\* HTTP handler with status 200).
IsCheckQuota(c) ==
    \/ c.op = "CheckQuota"
    \/ c.op = "handleQuotaCheck" /\ c.status = StatusOK

\* C1: in every reachable coordinator state every profile has
\* 0 <= used <= total_quota.
C1_UsedWithinTotal ==
    \A p \in DOMAIN profiles :
        /\ 0 <= profiles[p].usedQuota
        /\ profiles[p].usedQuota <= profiles[p].totalQuota

\* C1 witness: a request asking for more than was left has just been clamped
\* and the profile's budget is exactly exhausted.
C1_Witness ==
    /\ lastCall.op = "CheckQuota"
    /\ \E i \in 1 .. Len(lastCall.Responses) :
        LET r == lastCall.Responses[i]
        IN  /\ r.ProfileID \in DOMAIN profiles
            /\ r.Granted > 0
            /\ r.Granted < r.Required
            /\ profiles[r.ProfileID].usedQuota = profiles[r.ProfileID].totalQuota

\* C2: between operations, used equals the sum of allocated over the
\* profile's per-node records.
C2_UsedIsSumAllocated ==
    \A p \in DOMAIN profiles :
        profiles[p].usedQuota =
            SumAllocated(profiles[p].nodeQuotas, DOMAIN profiles[p].nodeQuotas)

\* C2 witness: two nodes hold a positive share of the same profile.
C2_Witness ==
    \E p \in DOMAIN profiles :
        /\ DOMAIN profiles[p].nodeQuotas = NodeIDs
        /\ \A n \in NodeIDs : profiles[p].nodeQuotas[n].allocated > 0

\* C3: the Granted values one CheckQuota response gives for a profile sum to
\* at most total_quota minus the used of before the request.
C3_ResponseWithinRemaining ==
    [][lastCall'.op = "CheckQuota" =>
        \A p \in DOMAIN profiles :
            SumGranted(lastCall'.Responses, p, Len(lastCall'.Responses))
                <= profiles[p].totalQuota - profiles[p].usedQuota]_vars

\* C3 witness: one request named the same profile twice, both entries were
\* granted something and the second was clamped.
C3_Witness ==
    /\ lastCall.op = "CheckQuota"
    /\ Len(lastCall.Responses) >= 2
    /\ LET a == lastCall.Responses[1]
           b == lastCall.Responses[2]
       IN  /\ a.ProfileID = b.ProfileID
           /\ a.ProfileID \in DOMAIN profiles
           /\ a.Granted > 0
           /\ b.Granted > 0
           /\ b.Granted < b.Required

\* C4: every entry on a known profile is granted min(required, total - used)
\* for the used of the moment the entry is reached; the positive grants are
\* added to the profile's used and to the requesting node's allocated, and no
\* other used or allocated changes.
C4_GrantedIsMin ==
    [][lastCall'.op = "CheckQuota" =>
        LET resp == lastCall'.Responses
            node == lastCall'.NodeID
        IN  /\ Len(resp) = Len(lastCall'.Quotas)
            /\ \A i \in 1 .. Len(resp) :
                LET p == lastCall'.Quotas[i].ProfileID
                IN  p \in DOMAIN profiles =>
                        /\ resp[i].ProfileID = p
                        /\ ~resp[i].RateLimited
                        /\ resp[i].Granted =
                              Min(lastCall'.Quotas[i].Required,
                                  profiles[p].totalQuota
                                    - (profiles[p].usedQuota
                                         + SumAdded(resp, p, i - 1)))
            /\ \A p \in DOMAIN profiles :
                /\ profiles'[p].totalQuota = profiles[p].totalQuota
                /\ profiles'[p].usedQuota =
                      profiles[p].usedQuota + SumAdded(resp, p, Len(resp))
                /\ \A n \in NodeIDs :
                      AllocatedOf(profiles'[p].nodeQuotas, n) =
                          AllocatedOf(profiles[p].nodeQuotas, n)
                            + (IF n = node
                               THEN SumAdded(resp, p, Len(resp)) ELSE 0)
                /\ DOMAIN profiles'[p].nodeQuotas
                      \subseteq DOMAIN profiles[p].nodeQuotas \cup {node}
                /\ p \notin Named(lastCall'.Quotas) =>
                      profiles'[p] = profiles[p]]_vars

\* C4 witness: a request for more than total_quota got total_quota - used,
\* with used positive before it: the other node holds a share.
C4_Witness ==
    /\ lastCall.op = "CheckQuota"
    /\ Len(lastCall.Responses) = 1
    /\ LET r == lastCall.Responses[1]
       IN  /\ r.ProfileID \in DOMAIN profiles
           /\ r.Required > profiles[r.ProfileID].totalQuota
           /\ r.Granted > 0
           /\ \E n \in DOMAIN profiles[r.ProfileID].nodeQuotas :
                /\ n # lastCall.NodeID
                /\ profiles[r.ProfileID].nodeQuotas[n].allocated > 0
                /\ r.Granted = profiles[r.ProfileID].totalQuota
                      - profiles[r.ProfileID].nodeQuotas[n].allocated

\* The entries of a request that name configured profiles, in order.
KnownEntries(quotas) ==
    SelectSeq(quotas, LAMBDA q : q.ProfileID \in ProfileIDs)

\* C5: an entry naming an unconfigured profile is answered with granted 0,
\* required echoed and rate_limited false; it changes nothing (a request of
\* such entries alone leaves the state as it was) and the other entries are
\* processed as if it were not there.
C5_UnknownProfile ==
    [][lastCall'.op = "CheckQuota" =>
        LET req == lastCall'.Quotas
            resp == lastCall'.Responses
        IN  /\ Len(resp) = Len(req)
            /\ \A i \in 1 .. Len(req) :
                req[i].ProfileID \notin DOMAIN profiles =>
                    resp[i] = [ProfileID   |-> req[i].ProfileID,
                               Granted     |-> 0,
                               Required    |-> req[i].Required,
                               RateLimited |-> FALSE]
            /\ KnownEntries(req) = <<>> => profiles' = profiles
            /\ profiles' =
                  CheckQuotaLoop(profiles, lastCall'.NodeID,
                                 KnownEntries(req), <<>>).profiles
            /\ KnownEntries(resp) =
                  CheckQuotaLoop(profiles, lastCall'.NodeID,
                                 KnownEntries(req), <<>>).Quotas]_vars

\* C5 witness: an unknown profile came first in a request whose second entry
\* was granted.
C5_Witness ==
    /\ lastCall.op = "CheckQuota"
    /\ Len(lastCall.Responses) = 2
    /\ lastCall.Responses[1].ProfileID \in UnknownProfileIDs
    /\ lastCall.Responses[1].Required > 0
    /\ lastCall.Responses[2].ProfileID \in DOMAIN profiles
    /\ lastCall.Responses[2].Granted > 0

\* A request whose entries all ask for 0 on configured profiles.
RefreshOnly(quotas) ==
    /\ quotas # <<>>
    /\ \A i \in 1 .. Len(quotas) :
        quotas[i].ProfileID \in ProfileIDs /\ quotas[i].Required = 0

\* C6 as stated: required = 0 on a known profile yields granted 0 and leaves
\* used, the allocations and the set of per-node records as they were.
C6_ZeroRequiredNoMutation ==
    [][lastCall'.op = "CheckQuota" /\ RefreshOnly(lastCall'.Quotas) =>
        /\ \A i \in 1 .. Len(lastCall'.Responses) :
              lastCall'.Responses[i].Granted = 0
        /\ profiles' = profiles]_vars

\* C6 amended: required = 0 on a known profile yields granted 0 and leaves
\* used and every existing record as they were; a node that had no record in
\* a named profile gets one with allocated 0, and no other record appears.
C6_ZeroRequiredCreatesRecord ==
    [][lastCall'.op = "CheckQuota" /\ RefreshOnly(lastCall'.Quotas) =>
        /\ \A i \in 1 .. Len(lastCall'.Responses) :
              lastCall'.Responses[i].Granted = 0
        /\ \A p \in DOMAIN profiles :
            /\ profiles'[p].usedQuota = profiles[p].usedQuota
            /\ profiles'[p].totalQuota = profiles[p].totalQuota
            /\ \A n \in DOMAIN profiles[p].nodeQuotas :
                  /\ n \in DOMAIN profiles'[p].nodeQuotas
                  /\ profiles'[p].nodeQuotas[n] = profiles[p].nodeQuotas[n]
            /\ DOMAIN profiles'[p].nodeQuotas =
                  DOMAIN profiles[p].nodeQuotas
                    \cup (IF p \in Named(lastCall'.Quotas)
                          THEN {lastCall'.NodeID} ELSE {})
            /\ \A n \in DOMAIN profiles'[p].nodeQuotas
                          \ DOMAIN profiles[p].nodeQuotas :
                  profiles'[p].nodeQuotas[n].allocated = 0]_vars

\* C6 witness: a required = 0 request has been answered for a node whose
\* record holds 0 while the other node holds the profile's whole budget.
C6_Witness ==
    /\ lastCall.op = "CheckQuota"
    /\ RefreshOnly(lastCall.Quotas)
    /\ \E p \in Named(lastCall.Quotas) :
        /\ DOMAIN profiles[p].nodeQuotas = NodeIDs
        /\ profiles[p].nodeQuotas[lastCall.NodeID].allocated = 0
        /\ profiles[p].usedQuota = profiles[p].totalQuota

\* What the interface accepts on /api/v1/quota/check: node_id non-empty,
\* quotas non-empty, every required >= 0.
ValidQuotaRequest(nodeID, quotas) ==
    /\ nodeID # ""
    /\ quotas # <<>>
    /\ \A i \in 1 .. Len(quotas) : quotas[i].Required >= 0

\* C7: the handler answers 200 (and has run CheckQuota) exactly for the
\* requests with a node_id, a non-empty quotas list and every required >= 0,
\* and answers 400 for every other request.
C7_ValidationAcceptsZero ==
    lastCall.op = "handleQuotaCheck" =>
        /\ ValidQuotaRequest(lastCall.NodeID, lastCall.Quotas)
              <=> lastCall.status = StatusOK
        /\ ~ValidQuotaRequest(lastCall.NodeID, lastCall.Quotas)
              <=> lastCall.status = StatusBadRequest

\* -------------------------------------------------------- claims: the node

\* The handlers whose checks have all passed and whose debit is still to come.
Admitting == {h \in Handlers : pc[h] \in {"Lock", "locking"}}

\* What the handlers in H are about to debit from profile p.
RECURSIVE PendingDebit(_, _)
PendingDebit(H, p) ==
    IF H = {} THEN 0
    ELSE LET h == CHOOSE x \in H : TRUE
         IN  (IF p \in DOMAIN call[h].req THEN call[h].req[p] ELSE 0)
             + PendingDebit(H \ {h}, p)

\* C8: check-and-debit is atomic among concurrent admissions: the requests
\* that have passed the check allocated - used >= required and are yet to be
\* debited fit the lease together, so that used <= allocated after each of
\* their debits; two requests that fit alone but not together never both
\* pass.
C8_CheckAndDebitAtomic ==
    \A p \in DOMAIN localQuotas :
        localQuotas[p].used + PendingDebit(Admitting, p)
            <= localQuotas[p].allocated

\* C9: a HandleRequest call whose checks have all passed (every named
\* profile present, allowed by its limiter, allocated - used >= required)
\* goes on to return {request_id, StatusOK}.
C9_AdmissionCompletes ==
    \A h \in Handlers :
        (pc[h] = "Lock" /\ DOMAIN call[h].req # {})
            ~> (pc[h] = "returned" /\ call[h].result = "ok")

\* C10: an admitted request is debited: a request naming profile p whose
\* checks have passed is charged, so that when it has returned used of p
\* holds at least its required (10 admitted requests of 50 give used = 500).
C10_AdmittedIsDebited ==
    \A h \in Handlers, p \in ProfileIDs :
        (pc[h] = "Lock" /\ p \in DOMAIN call[h].req)
            ~> (/\ pc[h] = "returned"
                /\ call[h].result = "ok"
                /\ p \in DOMAIN call[h].req
                /\ p \in DOMAIN localQuotas
                /\ localQuotas[p].used >= call[h].req[p])

\* The half of C10 that holds of the code: a HandleRequest that returns an
\* error leaves every local profile as it was.
RejectedLeavesLocalQuotas ==
    [][\A h \in Handlers :
        pc[h] = "idle" /\ pc'[h] = "returned" /\ call'[h].result # "ok" =>
            localQuotas' = localQuotas]_vars

\* What stands behind C8, C9 and C10: no debit is ever applied, and a
\* handler waiting in Lock holds the read lock it waits for.
NoDebitEver ==
    /\ \A p \in DOMAIN localQuotas : localQuotas[p].used = 0
    /\ \A h \in Handlers : call[h].result # "ok"
    /\ \A h \in Handlers : pc[h] \in {"Lock", "locking"} => h \in mu.readers

\* C11: refreshQuotas calls the coordinator at most max_retries times and
\* not again after a success; a refresh whose attempts have all failed has
\* made max_retries of them and has written no local profile: allocated,
\* used and last_refresh are as before.
C11_RetriesBounded ==
    [][\A r \in Refreshers :
        /\ call'[r].attempts <= MaxRetries
        /\ call'[r].attempts > call[r].attempts =>
              /\ pc[r] = "RequestQuota"
              /\ call[r].resp = <<>>
              /\ call'[r].attempts = call[r].attempts + 1
        /\ pc[r] \in {"Lock", "locking"} =>
              call'[r].attempts \in {call[r].attempts, 0}
        /\ (call'[r] # call[r] /\ pc[r] \in {"idle", "RequestQuota"}) =>
              localQuotas' = localQuotas
        /\ (pc[r] = "RequestQuota" /\ pc'[r] = "idle") =>
              /\ call'[r].attempts = MaxRetries
              /\ call'[r].resp = <<>>
              /\ localQuotas' = localQuotas]_vars

\* C11 witness: a refresh of a node that holds a lease has failed max_retries
\* times and returned.
C11_Witness ==
    \E r \in Refreshers :
        /\ pc[r] = "idle"
        /\ call[r].attempts = MaxRetries
        /\ call[r].req # <<>>
        /\ \E p \in DOMAIN localQuotas : localQuotas[p].allocated > 0

\* The refresh goroutine r writes the local quotas in this step: the critical
\* section at the end of a successful refresh.
RefreshApplied(r) == pc[r] = "locking" /\ pc'[r] = "idle"

C13_RefreshObtainsLease ==
    [][\A r \in Refreshers :
        RefreshApplied(r) =>
            \A p \in Named(call[r].resp) \cap DOMAIN localQuotas :
                (/\ p \in DOMAIN profiles
                 /\ profiles[p].usedQuota = 0
                 /\ DOMAIN profiles[p].nodeQuotas \subseteq {ThisNode})
                    => localQuotas'[p].allocated = profiles[p].totalQuota]_vars

\* C14: refresh idempotence: when a successful refresh follows a successful
\* refresh with no admission in between, the node's allocated for each of its
\* profiles equals the allocation the coordinator records for the node on
\* that profile. Stated for the quiet case: the coordinator's last grant to
\* the node is older than the first of the two refreshes.
C14_RefreshIdempotent ==
    [][\A r \in Refreshers :
        (RefreshApplied(r) /\ call[r].streak = 1) =>
            \A p \in DOMAIN localQuotas \cap DOMAIN profiles :
                (\A n \in DOMAIN profiles'[p].nodeQuotas \cap {ThisNode} :
                    profiles'[p].nodeQuotas[n].lastCheck
                        < localQuotas[p].lastRefresh)
                => localQuotas'[p].allocated =
                       AllocatedOf(profiles'[p].nodeQuotas, ThisNode)]_vars

\* This step is the coordinator running operation op.
Performed(op) == lastCall = NoCall /\ lastCall'.op = op

\* The nodes whose record is in state online.
Online(records) == {n \in DOMAIN records : records[n].state = StateOnline}

\* C15: after the periodic task has run with at least one node online, every
\* online node's allocation on each profile is floor(total_quota /
\* online_count) and every offline node's allocation is 0.
C15_RebalanceEqualShares ==
    [][(Performed("refresh") /\ Online(nodes) # {}) =>
        \A p \in DOMAIN profiles, n \in DOMAIN nodes :
            AllocatedOf(profiles'[p].nodeQuotas, n) =
                IF n \in Online(nodes)
                THEN profiles[p].totalQuota \div Cardinality(Online(nodes))
                ELSE 0]_vars

\* A request on the profile has been processed normally at this instant: a
\* node holds a grant of the profile made now.
ServedInWindow(profileMgr) ==
    \E n \in DOMAIN profileMgr.nodeQuotas :
        /\ profileMgr.nodeQuotas[n].lastCheck = now
        /\ profileMgr.nodeQuotas[n].allocated > 0

\* C16: rate control comes before quota accounting: on a profile limited to
\* one request per window (rate 1/s, burst 1), a CheckQuota request that
\* arrives in the window of an earlier one is answered rate_limited = true,
\* granted = 0, and leaves the profile's used and allocations unchanged.
C16_SecondRequestRateLimited ==
    [][(Performed("CheckQuota") /\ Len(lastCall'.Quotas) = 1) =>
        LET p == lastCall'.Quotas[1].ProfileID
        IN  (/\ p \in DOMAIN profiles
             /\ ServedInWindow(profiles[p])
             /\ lastCall'.Quotas[1].Required > 0) =>
                /\ lastCall'.Responses[1].RateLimited
                /\ lastCall'.Responses[1].Granted = 0
                /\ profiles'[p].usedQuota = profiles[p].usedQuota
                /\ \A n \in NodeIDs :
                      AllocatedOf(profiles'[p].nodeQuotas, n) =
                          AllocatedOf(profiles[p].nodeQuotas, n)]_vars

\* C17: a node that has sent no status report for offline_threshold and one
\* monitor interval more (the next monitor tick has come) is in state
\* offline with allocation 0 on every profile; and a status report puts the
\* node in state online.
C17_LivenessConvergence ==
    [][/\ \A n \in DOMAIN nodes' :
            now' - nodes'[n].lastSeen > OfflineThreshold + MonitorInterval =>
                /\ nodes'[n].state = StateOffline
                /\ \A p \in DOMAIN profiles' :
                      AllocatedOf(profiles'[p].nodeQuotas, n) = 0
       /\ Performed("handleNodeStatus") =>
            /\ lastCall'.NodeID \in DOMAIN nodes'
            /\ nodes'[lastCall'.NodeID].state = StateOnline
            /\ nodes'[lastCall'.NodeID].lastSeen = now]_vars

\* The probe g returns from HealthCheck in this step.
HealthChecked(g) == pc[g] = "idle" /\ pc'[g] = "returned"

\* C18: HealthCheck returns an error exactly when the node holds no local
\* profile or some local profile was last refreshed more than
\* 2 * refresh_interval ago, and nil otherwise; so a node whose refreshes
\* fail is reported unhealthy once its last refresh is that old, and not
\* before.
C18_HealthCheckStale ==
    [][\A g \in Probes :
        HealthChecked(g) =>
            /\ call'[g].result \in
                 {"ok", "no profiles configured", "quota refresh stale"}
            /\ call'[g].result # "ok" <=>
                 \/ DOMAIN localQuotas = {}
                 \/ \E p \in DOMAIN localQuotas :
                      now - localQuotas[p].lastRefresh > 2 * RefreshInterval
            /\ call'[g].result = "no profiles configured" <=>
                 DOMAIN localQuotas = {}]_vars

\* C18 witness: a refresh has failed on every attempt, more than
\* 2 * refresh_interval has passed since the last refresh of a local
\* profile, and the probe has been told so.
C18_Witness ==
    /\ \E g \in Probes :
        pc[g] = "returned" /\ call[g].result = "quota refresh stale"
    /\ \E r \in Refreshers :
        pc[r] = "idle" /\ call[r].attempts = MaxRetries /\ call[r].req # <<>>
    /\ \E p \in DOMAIN localQuotas :
        now - localQuotas[p].lastRefresh = 2 * RefreshInterval + 1

\* The handler h runs the check loop of HandleRequest in this step.
Checked(h) == pc[h] = "idle" /\ pc'[h] \in {"Lock", "returned"}

\* The error the three checks give for profile p of a request, taken in the
\* order unknown, rate-limited, quota-exceeded; "ok" when none applies.
Classify(lq, req, allow, p) ==
    IF p \notin DOMAIN lq THEN "profile-unknown"
    ELSE IF ~allow[p] THEN "rate-limited"
    ELSE IF lq[p].allocated - lq[p].used < req[p] THEN "quota-exceeded"
    ELSE "ok"

\* C19: the error HandleRequest returns is the first of profile-unknown,
\* rate-limited, quota-exceeded that applies to some named profile, and the
\* request passes the checks exactly when none applies to any named profile.
C19_ClassificationOrder ==
    [][\A h \in Handlers :
        Checked(h) =>
            LET req == call'[h].req
                allow == call'[h].allow
            IN  /\ pc'[h] = "Lock" <=>
                     \A p \in DOMAIN req :
                        Classify(localQuotas, req, allow, p) = "ok"
                /\ pc'[h] = "returned" =>
                     /\ call'[h].result # "ok"
                     /\ \E p \in DOMAIN req :
                          call'[h].result =
                              Classify(localQuotas, req, allow, p)
                /\ localQuotas' = localQuotas]_vars

\* C19 witness: a request was refused as rate-limited for a profile whose
\* lease it would also exceed, and it names an unknown profile as well (the
\* loop met the rate-limited one first).
C19_Witness ==
    \E h \in Handlers :
        /\ pc[h] = "returned"
        /\ call[h].result = "rate-limited"
        /\ \E p \in DOMAIN call[h].req \cap DOMAIN localQuotas :
            /\ ~call[h].allow[p]
            /\ QuotaExceeded(localQuotas[p], call[h].req[p])
        /\ \E p \in DOMAIN call[h].req : p \notin DOMAIN localQuotas

\* The Granted of the last entry of `responses` that names profile p.
LastGranted(responses, p) ==
    LET last == CHOOSE i \in DOMAIN responses :
                    /\ responses[i].ProfileID = p
                    /\ \A j \in DOMAIN responses :
                          responses[j].ProfileID = p => j <= i
    IN  responses[last].Granted

\* C20: when a successful refresh is applied, the local profiles named in
\* the response get allocated = granted and last_refresh = now, the local
\* profiles not named keep both, and no local profile is created for the
\* other entries of the response.
C20_RefreshFrame ==
    [][\A r \in Refreshers :
        RefreshApplied(r) =>
            /\ DOMAIN localQuotas' = DOMAIN localQuotas
            /\ \A p \in DOMAIN localQuotas :
                IF p \in Named(call[r].resp)
                THEN /\ localQuotas'[p].allocated =
                            LastGranted(call[r].resp, p)
                     /\ localQuotas'[p].lastRefresh = now
                ELSE /\ localQuotas'[p].allocated = localQuotas[p].allocated
                     /\ localQuotas'[p].lastRefresh =
                            localQuotas[p].lastRefresh]_vars

\* C20 witness: a refresh has just been applied whose response named one of
\* the two local profiles: that one carries a new lease stamped now, the
\* other still has the lease and the stamp of the start, and nothing else
\* is held.
C20_Witness ==
    /\ \E r \in Refreshers : pc[r] = "idle" /\ call[r].streak = 1
    /\ now > 0
    /\ DOMAIN localQuotas = ProfileIDs
    /\ \E p, q \in DOMAIN localQuotas :
        /\ localQuotas[p].lastRefresh = now
        /\ localQuotas[p].allocated > localQuotas[p].used
        /\ localQuotas[q].lastRefresh = 0
        /\ localQuotas[q].allocated > 0

\* Entry i is the first entry of `quotas` that asks a positive amount of its
\* profile.
FirstPositive(quotas, i) ==
    /\ quotas[i].Required > 0
    /\ \A j \in 1 .. i - 1 :
        quotas[j].ProfileID = quotas[i].ProfileID => quotas[j].Required <= 0

\* C21: a refresh tick run with some node online leaves used = 0 on every
\* profile; and a quota check that finds a profile with used = 0 (nothing
\* was granted of it since the tick) grants min(required, total_quota) to
\* its first entry asking a positive amount of that profile.
C21_TickEndsStarvation ==
    [][/\ (Performed("refresh") /\ Online(nodes) # {}) =>
            \A p \in DOMAIN profiles' : profiles'[p].usedQuota = 0
       /\ (Performed("handleQuotaCheck") /\ lastCall'.status = StatusOK) =>
            \A i \in 1 .. Len(lastCall'.Quotas) :
                LET p == lastCall'.Quotas[i].ProfileID
                IN  (/\ p \in DOMAIN profiles
                     /\ profiles[p].usedQuota = 0
                     /\ FirstPositive(lastCall'.Quotas, i)) =>
                        lastCall'.Responses[i].Granted =
                            Min(lastCall'.Quotas[i].Required,
                                profiles[p].totalQuota)]_vars

\* C21 witness: with a node online, a node has just been granted the whole
\* budget of a profile of which another node holds a record made at an
\* earlier time, now with allocation 0: the budget was asked for in an
\* earlier window and a tick has reset it since.
C21_Witness ==
    /\ lastCall.op = "handleQuotaCheck"
    /\ lastCall.status = StatusOK
    /\ Online(nodes) # {}
    /\ \E p \in DOMAIN profiles :
        /\ lastCall.Quotas[1].ProfileID = p
        /\ lastCall.Responses[1].Granted = profiles[p].totalQuota
        /\ profiles[p].usedQuota = profiles[p].totalQuota
        /\ \E m \in DOMAIN profiles[p].nodeQuotas :
            /\ m # lastCall.NodeID
            /\ profiles[p].nodeQuotas[m].lastCheck < now
            /\ profiles[p].nodeQuotas[m].allocated = 0

\* The caller c has a failed attempt and the sleep after it in this step.
AttemptFailed(c) == pc[c] = "operation" /\ call'[c].err # ""

\* min(2^i, 30), for any i >= 0.
CappedPower(i) == IF i >= 5 THEN 30 ELSE 2 ^ i

\* C22: RetryWithBackoff calls operation at most maxRetries times, returns
\* nil at the first success, returns the wrapped error only after maxRetries
\* failed attempts, and waits min(2^i, 30) seconds after failed attempt i.
C22_RetryWithBackoff ==
    [][\A c \in Callers :
        /\ pc'[c] = "operation" \/ pc[c] = "operation" =>
              call'[c].attempts <= call'[c].maxRetries
        /\ (pc[c] = "operation" /\ call'[c].err = "") =>
              /\ pc'[c] = "returned"
              /\ call'[c].result = "nil"
        /\ (pc[c] # "returned" /\ pc'[c] = "returned"
                /\ call'[c].result # "nil") =>
              /\ call'[c].attempts =
                    IF call'[c].maxRetries > 0 THEN call'[c].maxRetries ELSE 0
              /\ call'[c].result = Failed(call'[c].err)
        /\ AttemptFailed(c) =>
              call'[c].slept = Seconds(CappedPower(call[c].i))]_vars

\* Some profile's used or some node's allocated is smaller after the step.
Decreased ==
    \E p \in DOMAIN profiles :
        \/ profiles'[p].usedQuota < profiles[p].usedQuota
        \/ \E n \in NodeIDs :
              AllocatedOf(profiles'[p].nodeQuotas, n) <
                  AllocatedOf(profiles[p].nodeQuotas, n)

\* C23: CheckQuota answers no entry with a negative granted, whatever
\* required is, and decreases neither used nor any allocated; these decrease
\* at the refresh tick only.
C23_NoNegativeGrant ==
    [][/\ Performed("CheckQuota") =>
            /\ \A i \in 1 .. Len(lastCall'.Responses) :
                  lastCall'.Responses[i].Granted >= 0
            /\ ~Decreased
       /\ Decreased => Performed("refresh")]_vars

====
